---- MODULE Spec2Model ----
(***************************************************************************)
(* Model of VideoClipper (src/src/clip_video.py): the motion-based         *)
(* highlight detector and clip assembler.                                  *)
(*                                                                         *)
(* Numbers.  The program computes with Python floats; the model computes   *)
(* with exact rationals kept as scaled integers:                           *)
(*   - a coordinate is <<v>> (a number) or <<>> (NaN, no detection);       *)
(*   - a speed sample is kept in units of 1/SpeedDen pixel per second;     *)
(*   - a smoothed speed is kept multiplied by window_size (the sum of the  *)
(*     window), so that no division is needed;                             *)
(*   - std_multiplier is a fraction [num, den];                            *)
(*   - buffer_duration is a number of 1/BufDen seconds;                    *)
(*   - a time is kept in units of 1/(fps * BufDen) second.                 *)
(* Rounding of floating-point arithmetic is not modelled.                  *)
(***************************************************************************)
EXTENDS Integers, Sequences, FiniteSets

\* ------------------------------------------------------------------ bounds
MaxFrames == 3      \* rows of the keypoint table
MaxFps == 2         \* frame rates 0..MaxFps of the whole-pipeline runs
MaxLen == 6         \* length of a directly drawn speed series
MaxSpeed == 2       \* largest sample of a directly drawn speed series
MaxW == 3           \* largest window_size of a directly drawn detector run
MaxFrameNo == 8     \* largest flagged frame number of a directly drawn clip run
MaxFlags == 3       \* most flagged frames of a clip run drawn in any order
MaxBuffer == 2      \* largest buffer_duration of a clip run, in 1/BufDen s
MaxTail == 6        \* samples after the spike in the single-spike scenario
MaxSpike == 2       \* largest spike value in the single-spike scenario

\* ------------------------------------------------------- program constants
BufDen == 5         \* buffer_duration = 0.2 = 1/BufDen
SpikeFrame == 50    \* the frame of the single spike of the scenario
ScenarioFps == 25   \* the frame rate of the shipped video
ScenarioW == 5      \* window_size of the shipped run

\* ----------------------------------------------------------------- helpers
Max(a, b) == IF a >= b THEN a ELSE b
Min(a, b) == IF a <= b THEN a ELSE b

RECURSIVE SumSeq(_)
SumSeq(s) == IF s = <<>> THEN 0 ELSE Head(s) + SumSeq(Tail(s))

RECURSIVE SumSqSeq(_)
SumSqSeq(s) == IF s = <<>> THEN 0 ELSE Head(s) * Head(s) + SumSqSeq(Tail(s))

RECURSIVE Factorial(_)
Factorial(n) == IF n <= 1 THEN 1 ELSE n * Factorial(n - 1)

\* The square root of a perfect square (the coordinates below are chosen so
\* that every displacement is a whole number of pixels).
ISqrt(n) == CHOOSE r \in 0..n : r * r = n

\* All sequences over S of length 0..n.
SeqsUpTo(S, n) == UNION { [1..m -> S] : m \in 0..n }

\* ----------------------------------------------------------- keypoint table
Parts == {"nose", "tail"}
NaN == <<>>
IsNaN(c) == c = <<>>
\* one landmark at one frame: (x, y), either coordinate possibly missing
CellSet == { [x |-> <<0>>, y |-> <<0>>],
             [x |-> <<3>>, y |-> <<4>>],
             [x |-> NaN, y |-> <<4>>] }
\* a common denominator of total_displacement / valid_parts
SpeedDen == Factorial(Cardinality(Parts))

VARIABLES
    df,                  \* the keypoint table: a sequence of rows Parts -> cell
    fps,                 \* self.fps
    bodyparts,           \* the body parts handed to calculate_speed
    window_size,         \* analyze_and_clip's window_size
    std_multiplier,      \* analyze_and_clip's std_multiplier, [num, den]
    buffer_duration,     \* analyze_and_clip's buffer_duration, in 1/BufDen s
    speeds,              \* self.speeds
    rolling_avg_speeds,  \* identify_high_speed_frames' smoothed series (x W)
    interesting_frames,  \* self.interesting_frames: the frame numbers
    merged_intervals,    \* clip_video_segments' merged_intervals
    current_interval,    \* clip_video_segments' current_interval
    idx,                 \* position of the merge loop in interesting_frames
    attempt,             \* position of the extraction loop in merged_intervals
    clips,               \* clip_video_segments' clips
    errors,              \* the intervals reported by the except branch
    final_clip,          \* the value clip_video_segments returns (<<>>: None)
    output,              \* the intervals of the written file (<<>>: no file)
    outcome,             \* how the run ended
    pc                   \* the stage the run is at

vars == << df, fps, bodyparts, window_size, std_multiplier, buffer_duration,
           speeds, rolling_avg_speeds, interesting_frames, merged_intervals,
           current_interval, idx, attempt, clips, errors, final_clip, output,
           outcome, pc >>

inputs == << df, fps, bodyparts, window_size, std_multiplier, buffer_duration >>
clipState == << merged_intervals, current_interval, idx, attempt, clips,
                errors, final_clip, output >>

\* ------------------------------------------------------------ calculate_speed
\* np.any(np.isnan([x1, y1, x2, y2]))
AnyNaN(c1, c2) == IsNaN(c1.x) \/ IsNaN(c1.y) \/ IsNaN(c2.x) \/ IsNaN(c2.y)

\* math.dist((x1, y1), (x2, y2))
Dist(c1, c2) ==
    LET dx == c1.x[1] - c2.x[1]
        dy == c1.y[1] - c2.y[1]
    IN  ISqrt(dx * dx + dy * dy)

\* the body parts of one frame pair with valid data
ValidParts(frame1, frame2, parts) ==
    { p \in parts : ~AnyNaN(frame1[p], frame2[p]) }

RECURSIVE TotalDisplacement(_, _, _)
TotalDisplacement(frame1, frame2, valid) ==
    IF valid = {} THEN 0
    ELSE LET p == CHOOSE q \in valid : TRUE
         IN  Dist(frame1[p], frame2[p])
               + TotalDisplacement(frame1, frame2, valid \ {p})

\* avg_displacement / (1 / fps) of one frame pair, in 1/SpeedDen pixel/s
PairSpeed(frame1, frame2, parts, rate) ==
    LET valid == ValidParts(frame1, frame2, parts)
        valid_parts == Cardinality(valid)
    IN  IF valid_parts > 0
        THEN (TotalDisplacement(frame1, frame2, valid) * (SpeedDen \div valid_parts)) * rate
        ELSE 0

\* (variant) a frame pair with no valid body part is skipped, not given 0
SpeedsOfSkipping(table, parts, rate) ==
    LET pairs == SelectSeq([ i \in 1..(Len(table) - 1) |-> i ],
                           LAMBDA i : ValidParts(table[i], table[i + 1], parts) # {})
    IN  [ j \in 1..Len(pairs) |->
            PairSpeed(table[pairs[j]], table[pairs[j] + 1], parts, rate) ]

\* the speeds list of a whole table
SpeedsOf(table, parts, rate) ==
    [ i \in 1..(Len(table) - 1) |-> PairSpeed(table[i], table[i + 1], parts, rate) ]

\* calculate_speed returning normally
CalculateSpeed ==
    /\ pc = "calculate_speed"
    /\ ~(Len(df) >= 2 /\ fps = 0)
    /\ speeds' = SpeedsOf(df, bodyparts, fps)
    /\ pc' = "identify"
    /\ UNCHANGED << inputs, rolling_avg_speeds, interesting_frames, clipState, outcome >>

\* calculate_speed dividing by a zero frame rate at its first frame pair
CalculateSpeedRaises ==
    /\ pc = "calculate_speed"
    /\ Len(df) >= 2
    /\ fps = 0
    /\ outcome' = "ZeroDivisionError"
    /\ pc' = "done"
    /\ UNCHANGED << inputs, speeds, rolling_avg_speeds, interesting_frames, clipState >>

\* ------------------------------------------------- identify_high_speed_frames
\* (variant) incomplete windows keep what they hold (min_periods=1)
RollingAtPartial(series, w, i) ==
    IF w >= 1
    THEN SumSeq(SubSeq(series, Max(1, i - w + 1), i))
    ELSE 0

\* pd.Series(series).rolling(window=w).mean().fillna(0) at position i (from 1),
\* multiplied by w: a window that is not full gives NaN, which fillna makes 0
RollingAt(series, w, i) ==
    IF w >= 1 /\ i >= w
    THEN SumSeq(SubSeq(series, i - w + 1, i))
    ELSE 0

\* (variant) incomplete windows take the first full window's value (bfill)
RollingMeanBackfill(series, w) ==
    [ i \in 1..Len(series) |->
        IF i < w /\ Len(series) >= w
        THEN RollingAt(series, w, w)
        ELSE RollingAt(series, w, i) ]

RollingMean(series, w) == [ i \in 1..Len(series) |-> RollingAt(series, w, i) ]

\* (variant) speed >= speed_threshold
AboveThresholdNonStrict(v, vals, k) ==
    LET n == Len(vals)
        S == SumSeq(vals)
        Q == SumSqSeq(vals)
        d == k.den * (n * v - S)
        rad == n * Q - S * S
    IN  IF k.num >= 0
        THEN d >= 0 /\ d * d >= k.num * k.num * rad
        ELSE d >= 0 \/ d * d <= k.num * k.num * rad

\* speed > mean_speed + std_multiplier * std_speed, for the value v of the
\* series vals: with n = len, S = sum, Q = sum of squares, mean = S/n and
\* std = sqrt(n*Q - S*S)/n (np.std, the population deviation), the test is
\*   k.den * (n*v - S) > k.num * sqrt(n*Q - S*S)
AboveThreshold(v, vals, k) ==
    LET n == Len(vals)
        S == SumSeq(vals)
        Q == SumSqSeq(vals)
        d == k.den * (n * v - S)
        rad == n * Q - S * S
    IN  IF k.num >= 0
        THEN d > 0 /\ d * d > k.num * k.num * rad
        ELSE d >= 0 \/ d * d < k.num * k.num * rad

\* (variant) frame_number = i, the 0-based position
FlaggedFramesZeroBased(vals, k) ==
    SelectSeq([ i \in 1..Len(vals) |-> i - 1 ],
              LAMBDA j : AboveThreshold(vals[j + 1], vals, k))

\* the frame numbers (i + 1 for the 0-based position i) above the threshold
FlaggedFrames(vals, k) ==
    SelectSeq([ i \in 1..Len(vals) |-> i ],
              LAMBDA i : AboveThreshold(vals[i], vals, k))

\* identify_high_speed_frames returning normally
IdentifyHighSpeedFrames ==
    /\ pc = "identify"
    /\ window_size >= 0
    /\ rolling_avg_speeds' = RollingMean(speeds, window_size)
    /\ interesting_frames' = FlaggedFrames(rolling_avg_speeds', std_multiplier)
    /\ pc' = "merge"
    /\ UNCHANGED << inputs, speeds, clipState, outcome >>

\* rolling(window=w) rejecting a negative window
IdentifyRaises ==
    /\ pc = "identify"
    /\ window_size < 0
    /\ outcome' = "ValueError"
    /\ pc' = "done"
    /\ UNCHANGED << inputs, speeds, rolling_avg_speeds, interesting_frames, clipState >>

\* -------------------------------------------------------- clip_video_segments
\* (variant) start_time is not clamped at 0
FrameIntervalNoClamp(frame_num, rate, buffer) ==
    << (frame_num - 1) * BufDen - buffer * rate, frame_num * BufDen + buffer * rate >>

\* (start_time, end_time) of one flagged frame, in 1/(rate * BufDen) second
FrameInterval(frame_num, rate, buffer) ==
    LET start_time == (frame_num - 1) * BufDen - buffer * rate
        end_time == frame_num * BufDen + buffer * rate
    IN  << Max(0, start_time), end_time >>

\* (variant) touching intervals do not count as overlapping
OverlapsStrict(interval, existing) ==
    interval[1] < existing[2] /\ interval[2] > existing[1]

\* start_time <= existing_end and end_time >= existing_start
Overlaps(interval, existing) ==
    interval[1] <= existing[2] /\ interval[2] >= existing[1]

\* (variant) the union keeps the existing end
UnionKeepsEnd(interval, existing) ==
    << Min(interval[1], existing[1]), existing[2] >>

\* (min(start_time, existing_start), max(end_time, existing_end))
Union(interval, existing) ==
    << Min(interval[1], existing[1]), Max(interval[2], existing[2]) >>

\* one pass of the outer loop: the first overlapping interval is replaced by
\* the union, and with no overlap the interval is appended
MergeInto(merged, interval) ==
    LET hits == { i \in 1..Len(merged) : Overlaps(interval, merged[i]) }
    IN  IF hits = {}
        THEN Append(merged, interval)
        ELSE LET i == CHOOSE j \in hits : \A h \in hits : j <= h
             IN  [ merged EXCEPT ![i] = Union(interval, merged[i]) ]

\* one iteration of the merge loop
MergeStep ==
    /\ pc = "merge"
    /\ idx <= Len(interesting_frames)
    /\ IF fps = 0
       THEN /\ outcome' = "ZeroDivisionError"
            /\ pc' = "done"
            /\ UNCHANGED << merged_intervals, current_interval, idx >>
       ELSE /\ current_interval' = FrameInterval(interesting_frames[idx], fps, buffer_duration)
            /\ merged_intervals' = MergeInto(merged_intervals, current_interval')
            /\ idx' = idx + 1
            /\ UNCHANGED << outcome, pc >>
    /\ UNCHANGED << inputs, speeds, rolling_avg_speeds, interesting_frames,
                    attempt, clips, errors, final_clip, output >>

\* the merge loop ending
MergeDone ==
    /\ pc = "merge"
    /\ idx > Len(interesting_frames)
    /\ pc' = "extract"
    /\ UNCHANGED << inputs, speeds, rolling_avg_speeds, interesting_frames,
                    clipState, outcome >>

\* VideoFileClip(...).subclipped(start_time, end_time) succeeding
ExtractOk ==
    /\ pc = "extract"
    /\ attempt <= Len(merged_intervals)
    /\ clips' = Append(clips, merged_intervals[attempt])
    /\ attempt' = attempt + 1
    /\ UNCHANGED << inputs, speeds, rolling_avg_speeds, interesting_frames,
                    merged_intervals, current_interval, idx, errors,
                    final_clip, output, outcome, pc >>

\* (variant) a failed extraction ends the loop
ExtractFailAborts ==
    /\ pc = "extract"
    /\ attempt <= Len(merged_intervals)
    /\ errors' = Append(errors, merged_intervals[attempt])
    /\ attempt' = Len(merged_intervals) + 1
    /\ UNCHANGED << inputs, speeds, rolling_avg_speeds, interesting_frames,
                    merged_intervals, current_interval, idx, clips,
                    final_clip, output, outcome, pc >>

\* VideoFileClip(...).subclipped(start_time, end_time) raising: the except
\* branch prints the interval and the loop goes on
ExtractFail ==
    /\ pc = "extract"
    /\ attempt <= Len(merged_intervals)
    /\ errors' = Append(errors, merged_intervals[attempt])
    /\ attempt' = attempt + 1
    /\ UNCHANGED << inputs, speeds, rolling_avg_speeds, interesting_frames,
                    merged_intervals, current_interval, idx, clips,
                    final_clip, output, outcome, pc >>

\* concatenate_videoclips(clips), or None for no clips
Concatenate ==
    /\ pc = "extract"
    /\ attempt > Len(merged_intervals)
    /\ final_clip' = IF clips # <<>> THEN clips ELSE <<>>
    /\ pc' = "returned"
    /\ UNCHANGED << inputs, speeds, rolling_avg_speeds, interesting_frames,
                    merged_intervals, current_interval, idx, attempt, clips,
                    errors, output, outcome >>

\* ----------------------------------------------------------- analyze_and_clip
\* final_clip.write_videofile(output_path, codec="libx264")
WriteOutput ==
    /\ pc = "returned"
    /\ final_clip # <<>>
    /\ output' = final_clip
    /\ outcome' = "produced"
    /\ pc' = "done"
    /\ UNCHANGED << inputs, speeds, rolling_avg_speeds, interesting_frames,
                    merged_intervals, current_interval, idx, attempt, clips,
                    errors, final_clip >>

\* print("No video created.")
NoVideo ==
    /\ pc = "returned"
    /\ final_clip = <<>>
    /\ outcome' = "empty"
    /\ pc' = "done"
    /\ UNCHANGED << inputs, speeds, rolling_avg_speeds, interesting_frames,
                    clipState >>

\* ------------------------------------------------------------ specifications
NoInterval == << 0, 0 >>

\* the locals of clip_video_segments and the result, before the run
FreshClip ==
    /\ merged_intervals = <<>>
    /\ current_interval = NoInterval
    /\ idx = 1
    /\ attempt = 1
    /\ clips = <<>>
    /\ errors = <<>>
    /\ final_clip = <<>>
    /\ output = <<>>
    /\ outcome = "running"

\* the fields __init__ sets, and the locals
Fresh ==
    /\ speeds = <<>>
    /\ rolling_avg_speeds = <<>>
    /\ interesting_frames = <<>>
    /\ FreshClip

\* analyze_and_clip on any small table, frame rate, body-part set and window
Init ==
    /\ df \in SeqsUpTo([Parts -> CellSet], MaxFrames)
    /\ fps \in 0..MaxFps
    /\ bodyparts \in {Parts, {}}
    /\ window_size \in {-1, 0, 1, 2}
    /\ std_multiplier = [num |-> 1, den |-> 2]
    /\ buffer_duration = 1
    /\ Fresh
    /\ pc = "calculate_speed"

ClipNext ==
    \/ MergeStep
    \/ MergeDone
    \/ ExtractOk
    \/ ExtractFail
    \/ Concatenate
    \/ WriteOutput
    \/ NoVideo

Next ==
    \/ CalculateSpeed
    \/ CalculateSpeedRaises
    \/ IdentifyHighSpeedFrames
    \/ IdentifyRaises
    \/ ClipNext

Spec == Init /\ [][Next]_vars

\* calculate_speed alone, on any small table, body-part subset and frame rate
InitSpeed ==
    /\ df \in SeqsUpTo([Parts -> CellSet], MaxFrames)
    /\ fps \in 0..MaxFps
    /\ bodyparts \in SUBSET Parts
    /\ window_size = ScenarioW
    /\ std_multiplier = [num |-> 1, den |-> 2]
    /\ buffer_duration = 1
    /\ Fresh
    /\ pc = "calculate_speed"

NextSpeed ==
    \/ CalculateSpeed
    \/ CalculateSpeedRaises

SpecSpeed == InitSpeed /\ [][NextSpeed]_vars

\* the values of std_multiplier tried: 0.5 (the shipped run), 2 (the default), 0
KSet == { [num |-> 1, den |-> 2], [num |-> 2, den |-> 1], [num |-> 0, den |-> 1] }

\* identify_high_speed_frames alone, on any small non-negative speed series
InitDetect ==
    /\ df = <<>>
    /\ fps = 1
    /\ bodyparts = Parts
    /\ window_size \in 1..MaxW
    /\ std_multiplier \in KSet
    /\ buffer_duration = 1
    /\ speeds \in SeqsUpTo(0..MaxSpeed, MaxLen)
    /\ rolling_avg_speeds = <<>>
    /\ interesting_frames = <<>>
    /\ FreshClip
    /\ pc = "identify"

NextDetect == IdentifyHighSpeedFrames

SpecDetect == InitDetect /\ [][NextDetect]_vars

\* the frame numbers of S in ascending order
RECURSIVE Ascending(_)
Ascending(S) ==
    IF S = {} THEN <<>>
    ELSE LET m == CHOOSE x \in S : \A y \in S : x <= y
         IN  << m >> \o Ascending(S \ {m})

\* the frame rates and paddings of the directly drawn clip runs
ClipFps == {1, BufDen}
ClipBuffers == 0..MaxBuffer

\* the fields of a run that starts at clip_video_segments
ClipInputs ==
    /\ df = <<>>
    /\ bodyparts = Parts
    /\ window_size = ScenarioW
    /\ std_multiplier = [num |-> 1, den |-> 2]
    /\ speeds = <<>>
    /\ rolling_avg_speeds = <<>>
    /\ fps \in ClipFps
    /\ buffer_duration \in ClipBuffers
    /\ FreshClip
    /\ pc = "merge"

\* clip_video_segments and the end of analyze_and_clip, on any flagged frames
\* in the order identify_high_speed_frames emits them (strictly ascending)
InitMerge ==
    /\ interesting_frames \in { Ascending(S) : S \in SUBSET (1..MaxFrameNo) }
    /\ ClipInputs

SpecMerge == InitMerge /\ [][ClipNext]_vars

\* the same on flagged frames held in interesting_frames in any order
InitAnyOrder ==
    /\ interesting_frames \in SeqsUpTo(1..MaxFrameNo, MaxFlags)
    /\ ClipInputs

SpecAnyOrder == InitAnyOrder /\ [][ClipNext]_vars

\* a speed series of n samples, zero but for the value c at frame SpikeFrame
SpikeSeries(n, c) == [ i \in 1..n |-> IF i = SpikeFrame THEN c ELSE 0 ]

\* the shipped configuration (25 fps, window 5, multiplier 0.5, padding 0.2)
\* on a single-spike series
InitSpike ==
    /\ df = <<>>
    /\ bodyparts = Parts
    /\ fps = ScenarioFps
    /\ window_size = ScenarioW
    /\ std_multiplier = [num |-> 1, den |-> 2]
    /\ buffer_duration = 1
    /\ speeds \in { SpikeSeries(SpikeFrame + t, c) : t \in 0..MaxTail, c \in 1..MaxSpike }
    /\ rolling_avg_speeds = <<>>
    /\ interesting_frames = <<>>
    /\ FreshClip
    /\ pc = "identify"

NextSpike ==
    \/ IdentifyHighSpeedFrames
    \/ ClipNext

SpecSpike == InitSpike /\ [][NextSpike]_vars

\* ===================================================================== claims
Range(s) == { s[i] : i \in 1..Len(s) }
IsConstant(s) == \A i, j \in 1..Len(s) : s[i] = s[j]
AfterMergeLoop == pc \in {"extract", "returned", "done"}

\* the padded interval of flagged frame f as the specification states it:
\* (max(0, (f-1)/fps - B), f/fps + B), in 1/(fps * BufDen) second
PaddedInterval(f) ==
    << Max(0, (f - 1) * BufDen - buffer_duration * fps),
       f * BufDen + buffer_duration * fps >>

Contains(outer, inner) == outer[1] <= inner[1] /\ inner[2] <= outer[2]

\* C1: after the merge loop on strictly ascending flagged frames, no two
\* merged intervals overlap or touch, none has end < start, the list is sorted
\* by start, and each per-frame padded interval lies in exactly one of them.
C1_MergedDisjointSortedCovering ==
    AfterMergeLoop =>
        LET m == merged_intervals
            n == Len(merged_intervals)
        IN  /\ \A i, j \in 1..n :
                  i # j => (m[i][2] < m[j][1] \/ m[j][2] < m[i][1])
            /\ \A i \in 1..n : m[i][1] <= m[i][2]
            /\ \A i, j \in 1..n : i < j => m[i][1] <= m[j][1]
            /\ \A f \in Range(interesting_frames) :
                  Cardinality({ i \in 1..n : Contains(m[i], PaddedInterval(f)) }) = 1

\* C1's case: several frames were merged into one interval and at least two
\* intervals remain
C1_Witness ==
    /\ pc = "extract"
    /\ Len(merged_intervals) >= 2
    /\ Len(interesting_frames) > Len(merged_intervals)

\* C8: each interval built for a flagged frame f is
\* (max(0, (f-1)/fps - B), f/fps + B); frame 1 gives start 0; no per-frame or
\* merged interval has a negative start.
C8_IntervalFormulaAndClamp ==
    /\ (idx > 1 /\ outcome # "ZeroDivisionError") =>
          LET f == interesting_frames[idx - 1]
          IN  /\ current_interval[1] = Max(0, (f - 1) * BufDen - buffer_duration * fps)
              /\ current_interval[2] = f * BufDen + buffer_duration * fps
              /\ current_interval[1] >= 0
              /\ (f = 1 => current_interval[1] = 0)
    /\ \A i \in 1..Len(merged_intervals) : merged_intervals[i][1] >= 0

\* C8's case: frame 1 was just processed with a positive padding, so that the
\* unclamped start would be negative
C8_Witness ==
    /\ pc = "merge"
    /\ idx = 2
    /\ interesting_frames[1] = 1
    /\ buffer_duration > 0
    /\ current_interval[1] = 0
    /\ merged_intervals = << current_interval >>

\* the full transitive merge: sort by start, then sweep and union every
\* overlapping or touching neighbour
RECURSIVE InsertByStart(_, _)
InsertByStart(sorted, iv) ==
    IF sorted = <<>> THEN << iv >>
    ELSE IF iv[1] < Head(sorted)[1] THEN << iv >> \o sorted
    ELSE << Head(sorted) >> \o InsertByStart(Tail(sorted), iv)

RECURSIVE SortByStart(_)
SortByStart(s) ==
    IF s = <<>> THEN <<>>
    ELSE InsertByStart(SortByStart(SubSeq(s, 1, Len(s) - 1)), s[Len(s)])

RECURSIVE Sweep(_, _)
Sweep(acc, rest) ==
    IF rest = <<>> THEN acc
    ELSE IF acc # <<>> /\ Head(rest)[1] <= acc[Len(acc)][2]
    THEN Sweep([ acc EXCEPT ![Len(acc)] = << acc[Len(acc)][1],
                                             Max(acc[Len(acc)][2], Head(rest)[2]) >> ],
               Tail(rest))
    ELSE Sweep(Append(acc, Head(rest)), Tail(rest))

TransitiveMerge(frames) ==
    Sweep(<<>>, SortByStart([ i \in 1..Len(frames) |-> PaddedInterval(frames[i]) ]))

\* C10: on strictly ascending flagged frames the first-match merge loop ends
\* with exactly the interval list of the full transitive merge.
C10_FirstMatchEqualsTransitiveMerge ==
    AfterMergeLoop => merged_intervals = TransitiveMerge(interesting_frames)

\* C10's case: three or more frames, some merged, two or more intervals left
C10_Witness ==
    /\ pc = "returned"
    /\ Len(interesting_frames) >= 3
    /\ Len(merged_intervals) >= 2
    /\ Len(merged_intervals) < Len(interesting_frames)
    /\ merged_intervals = TransitiveMerge(interesting_frames)

\* C2: a failed extraction skips only its interval: every merged interval is
\* attempted, the concatenation holds exactly the extracted intervals in the
\* order attempted, and with none extracted the method returns None and no
\* file is written, the run ending normally.
C2_FailedIntervalSkippedOnly ==
    /\ pc \in {"returned", "done"} =>
          /\ attempt = Len(merged_intervals) + 1
          /\ Len(clips) + Len(errors) = Len(merged_intervals)
          /\ clips = SelectSeq(merged_intervals, LAMBDA iv : iv \notin Range(errors))
          /\ errors = SelectSeq(merged_intervals, LAMBDA iv : iv \notin Range(clips))
          /\ final_clip = clips
    /\ pc = "done" =>
          /\ output = clips
          /\ outcome = IF clips = <<>> THEN "empty" ELSE "produced"

\* C2's case: a run that ended with an interval that failed before one that
\* was extracted
C2_Witness ==
    /\ pc = "done"
    /\ errors # <<>>
    /\ clips # <<>>
    /\ errors[1][1] < clips[Len(clips)][1]
    /\ output = clips

\* C2's other case: every extraction failed and no file was written
C2_WitnessNone ==
    /\ pc = "done"
    /\ errors # <<>>
    /\ clips = <<>>
    /\ output = <<>>
    /\ outcome = "empty"

\* C7: whatever the order of interesting_frames, the sub-clips handed to
\* concatenation are sorted by start time.
C7_ClipsSortedByStart ==
    \A i, j \in 1..Len(clips) : i < j => clips[i][1] <= clips[j][1]

\* C3 as stated: every position with at least one but fewer than window_size
\* samples holds the mean of all samples seen so far (smoothed/W = sum/i).
C3_WarmupIsMeanSoFar ==
    pc = "merge" =>
        \A i \in 1..Len(speeds) :
            i < window_size =>
                rolling_avg_speeds[i] * i = window_size * SumSeq(SubSeq(speeds, 1, i))

\* C3 amended: every position with fewer than window_size samples holds 0.0,
\* whatever the samples seen so far; every later position holds the mean of
\* the last window_size samples.
C3_WarmupIsZero ==
    pc = "merge" =>
        \A i \in 1..Len(speeds) :
            /\ i < window_size => rolling_avg_speeds[i] = 0
            /\ i >= window_size =>
                  rolling_avg_speeds[i] =
                      SumSeq(SubSeq(speeds, i - window_size + 1, i))

\* C3's case: a positive first sample in a window of two or more, on a series
\* long enough to fill a window
C3_Witness ==
    /\ pc = "merge"
    /\ window_size >= 2
    /\ Len(speeds) >= window_size
    /\ speeds[1] > 0
    /\ rolling_avg_speeds[1] = 0
    /\ rolling_avg_speeds[window_size] > 0

\* C4 as stated: a constant series flags nothing for any multiplier > 0.
C4_ConstantFlagsNothing ==
    (pc = "merge" /\ IsConstant(speeds) /\ std_multiplier.num > 0) =>
        interesting_frames = <<>>

\* C4 amended: a constant series flags nothing for any multiplier > 0 when
\* its value is 0 or it is shorter than window_size.
C4_ZeroOrShortConstantFlagsNothing ==
    (/\ pc = "merge"
     /\ IsConstant(speeds)
     /\ std_multiplier.num > 0
     /\ \/ Len(speeds) < window_size
        \/ \A i \in 1..Len(speeds) : speeds[i] = 0) =>
        interesting_frames = <<>>

\* C4's case: an all-zero series that fills at least one window
C4_Witness ==
    /\ pc = "merge"
    /\ std_multiplier.num > 0
    /\ Len(speeds) >= window_size
    /\ Len(speeds) >= 2
    /\ \A i \in 1..Len(speeds) : speeds[i] = 0
    /\ interesting_frames = <<>>

\* C5: a table of fewer than 2 frames, a frame rate <= 0, an empty body-part
\* set or a non-positive window_size ends the run in InvalidInputError.
C5_InvalidInputRejected ==
    (/\ pc = "done"
     /\ \/ Len(df) < 2
        \/ fps <= 0
        \/ bodyparts = {}
        \/ window_size <= 0) =>
        outcome = "InvalidInputError"

\* C6 as stated: the single-spike series flags exactly one frame, at or next
\* to frame 50, and the merge loop ends with exactly one interval.
C6_OneFlaggedFrame ==
    /\ pc # "identify" =>
          /\ Len(interesting_frames) = 1
          /\ interesting_frames[1] \in (SpikeFrame - 1)..(SpikeFrame + 1)
    /\ AfterMergeLoop => Len(merged_intervals) = 1

\* C6 amended: the single-spike series flags every frame whose window holds
\* the spike, frames 50..54 (cut at the end of the series), and the merge loop
\* ends with exactly one interval, from (50-1)/fps - B to last/fps + B.
C6_WindowOfFlaggedFrames ==
    LET last == Min(SpikeFrame + ScenarioW - 1, Len(speeds))
    IN  /\ pc # "identify" =>
              interesting_frames = [ i \in 1..(last - SpikeFrame + 1) |-> SpikeFrame - 1 + i ]
        /\ AfterMergeLoop =>
              merged_intervals =
                  << << (SpikeFrame - 1) * BufDen - buffer_duration * fps,
                        last * BufDen + buffer_duration * fps >> >>

\* C6's case: the spike is followed by at least a whole window of samples
C6_Witness ==
    /\ pc = "extract"
    /\ Len(speeds) >= SpikeFrame + ScenarioW
    /\ Len(interesting_frames) = ScenarioW
    /\ Len(merged_intervals) = 1

\* C9: with fps > 0, a frame pair in which every body part has a missing
\* coordinate gives the speed sample 0, and an N-frame table gives N-1 samples.
C9_AllMissingPairIsZero ==
    (pc = "identify" /\ fps > 0 /\ Len(df) >= 1) =>
        /\ Len(speeds) = Len(df) - 1
        /\ \A i \in 1..(Len(df) - 1) :
              (\A p \in bodyparts :
                    \/ IsNaN(df[i][p].x) \/ IsNaN(df[i][p].y)
                    \/ IsNaN(df[i + 1][p].x) \/ IsNaN(df[i + 1][p].y))
                  => (i \in DOMAIN speeds /\ speeds[i] = 0)

\* C9's case: a first pair with every body part missing, then a pair that moves
C9_Witness ==
    /\ pc = "identify"
    /\ fps > 0
    /\ Len(df) = 3
    /\ bodyparts = Parts
    /\ \A p \in Parts : IsNaN(df[1][p].x)
    /\ speeds[1] = 0
    /\ speeds[2] > 0

\* C11: for a non-negative speed series, window_size W >= 1 and a multiplier
\* k >= 0, no frame number in 1..W-1 is flagged (the warm-up positions are
\* smoothed to 0, never strictly above the threshold), and nothing is flagged
\* when the series has fewer than W samples.
C11_WarmupNeverFlagged ==
    (/\ pc = "merge"
     /\ window_size >= 1
     /\ std_multiplier.num >= 0
     /\ \A i \in 1..Len(speeds) : speeds[i] >= 0) =>
        /\ \A i \in 1..Len(interesting_frames) :
              interesting_frames[i] \notin 1..(window_size - 1)
        /\ Len(speeds) < window_size => interesting_frames = <<>>

\* C11's case: the largest sample sits in the warm-up, a later frame is
\* flagged, and the warm-up frame is not
C11_Witness ==
    /\ pc = "merge"
    /\ window_size >= 2
    /\ Len(speeds) > window_size
    /\ speeds[1] > 0
    /\ \A i \in 2..Len(speeds) : speeds[i] < speeds[1]
    /\ interesting_frames # <<>>
    /\ interesting_frames[1] >= window_size

====
